---- MODULE Spec2Model ----
(***************************************************************************)
(* A model of the Telex Reddit client (believemanasseh/telex-python).       *)
(*                                                                         *)
(* Part 1 - the comment-tree renderer of windows/post_detail.py:           *)
(*   PostDetailWindow.render_page and PostDetailWindow.__load_comments.    *)
(* Part 2 - the Reddit clients (utils/services.py, the early synchronous   *)
(*   one, and services.py, the later one) and the coroutines and signal    *)
(*   handlers that use the later one on the application's event loop       *)
(*   (windows/auth.py, windows/titlebar_controller.py, windows/profile.py).*)
(***************************************************************************)
EXTENDS Integers, Sequences, FiniteSets, TLC

(***************************************************************************)
(* Bounds of the model.                                                    *)
(***************************************************************************)
\* Largest number of comment nodes in a listing (all depths together).
MaxNodes == 3
\* Largest number of coroutines alive on the event loop at a time.
MaxTasks == 1
\* Number of profile tabs modelled (a prefix of TabNames).
MaxTabs == 2
\* Largest number of back / home buttons in the header bar at a time.
MaxButtons == 2
\* Largest multiple of a time unit among the elapsed times tried.
MaxCount == 2
\* Longest text in the subreddit search entry.
MaxText == 2
\* Number of subreddit rows under the search entry.
MaxRows == 2
MaxPaste == 3

(***************************************************************************)
(* Program constants.                                                      *)
(***************************************************************************)
\* margin_start = nesting_level * 30
IndentUnit == 30
\* HTTPStatus.OK
HTTP_OK == 200
\* utils/constants.py: Seconds
MINUTE == 60
HOUR == 3600
DAY == 86400
WEEK == 604800

VARIABLES
    \* ---- post_detail.py ----
    comments,   \* the comment listing of self.data["json"][1]: node id -> JSON node
    pc,         \* position of render_page: "idle", "loading", "done", "raised"
    todo,       \* pending __load_comments calls <<node, nesting_level>>, innermost loop first
    rendered,   \* the comment boxes appended to comments_container, in order
    visited,    \* the nodes __load_comments has been called on
    raisedAt,   \* the node whose processing raised (0: none)
    \* ---- the clients and the application ----
    version,    \* which generation of the code runs: "early" or "later"
    headers,    \* Reddit.headers of the client in use
    lastCall,   \* the client call that returned or raised last
    tasks,      \* the coroutines alive on application.loop, in creation order
    syncCall,   \* the blocking request the loop thread is inside of, if any
    secret,     \* value of the stored secret 'telex-access-token' ("none": absent)
    dialog,     \* AuthWindow.dialog: "none", "open", "closed"
    loginShown, \* AuthWindow.box visible with reddit_btn in it
    home,       \* a HomeWindow was created with the client
    got200,     \* history: a token exchange returned status 200
    controller, \* a TitlebarController was constructed
    userData,   \* TitlebarController.user_data: "none", "ok", "bad"
    viewProfileBtn, \* the View Profile button: "absent", "enabled", "disabled"
    tabsBuilt,  \* the profile page's tabs_hbox is on screen
    tabSensitive,   \* the profile tabs that are sensitive
    currentProfileTab,  \* store.current_profile_tab
    profileBox, \* ProfileWindow.box exists (render_page creates it on "overview" only)
    \* ---- AWSClient and the Log Out handler ----
    awsResult,  \* the AWSClient method call that returned or raised last
    baseWindow, \* the application window home_window.base: "open" or "closed"
    logoutBtn,  \* the Log Out button: "enabled" or "disabled"
    effects,    \* history: what __on_logout_clicked did, in order
    \* ---- the application shell: preferences, store and header bar ----
    settings,   \* the persisted Gio.Settings keys "dark-mode" and "show-nsfw"
    prefsWindow,    \* the PreferencesWindow: "closed" or "open"
    darkSwitch, \* dark_switch.active
    nsfwSwitch, \* nsfw_switch.active
    colorScheme,    \* the style manager's colour scheme: "DEFAULT" or "FORCE_DARK"
    current_sort,   \* store.current_sort
    current_window, \* store.current_window
    back_btn_set,   \* store.back_btn_set
    headerBar,  \* the back / home buttons packed into the header bar, in order
    back_btn,   \* TitlebarController.back_btn: "None" or "button"
    home_btn,   \* TitlebarController.home_btn: "None" or "button"
    sortLabel,  \* text of the sort menu button's label
    radios,     \* names of the sort radio buttons that are active
    pendingToggles, \* "toggled" emissions of the running click not yet handled
    scheduled,  \* the render tasks the last handler created, in order
    lastEvent,  \* history: the handler that ran last and the settings it changed
    \* ---- utils/common.py: get_submission_time ----
    clock,      \* datetime.now(tz=UTC), in half seconds since the epoch
    utc_timestamp,  \* the argument of the last get_submission_time call (seconds)
    submission_time,    \* what that call returned
    \* ---- the subreddit search entry (new_post.py, subreddits.py) ----
    searchWindow,   \* the window the entry is in: "new_post" or "subreddits"
    subreddit_boxes,    \* the rows: their title and prefixed-name labels
    entryText,  \* the text of the entry buffer
    rowVisible, \* row index -> the row is visible
    \* ---- the title field of NewPostDialog (new_post.py) ----
    title_count,    \* text_buffer.get_char_count() of the title buffer
    lastInsert, \* history: the last "insert-text" emission and what became of it
    \* ---- the sort menu of the header bar (home.py, titlebar_controller.py) ----
    popover     \* the radio buttons of the sort popover built last, in order

commentVars == <<comments, pc, todo, rendered, visited, raisedAt>>

appVars == <<version, headers, lastCall, tasks, syncCall, secret, dialog, loginShown,
             home, got200, controller, userData, viewProfileBtn, tabsBuilt,
             tabSensitive, currentProfileTab, profileBox>>

sessionVars == <<awsResult, baseWindow, logoutBtn, effects>>

\* The variables outside the comment renderer and the application of Part 2.
prefsVars == <<settings, prefsWindow, darkSwitch, nsfwSwitch, colorScheme>>

navVars == <<current_sort, current_window, back_btn_set, headerBar, back_btn, home_btn,
             sortLabel, radios, pendingToggles, scheduled>>

shellVars == <<prefsVars, navVars, lastEvent>>

timeVars == <<clock, utc_timestamp, submission_time>>

searchVars == <<searchWindow, subreddit_boxes, entryText, rowVisible>>

titleVars == <<title_count, lastInsert>>

toolVars == <<timeVars, searchVars, titleVars, popover>>

extVars == <<sessionVars, shellVars, toolVars>>

vars == <<comments, pc, todo, rendered, visited, raisedAt,
          version, headers, lastCall, tasks, syncCall, secret, dialog, loginShown,
          home, got200, controller, userData, viewProfileBtn, tabsBuilt,
          tabSensitive, currentProfileTab, profileBox,
          awsResult, baseWindow, logoutBtn, effects,
          settings, prefsWindow, darkSwitch, nsfwSwitch, colorScheme,
          current_sort, current_window, back_btn_set, headerBar, back_btn, home_btn,
          sortLabel, radios, pendingToggles, scheduled, lastEvent,
          clock, utc_timestamp, submission_time,
          searchWindow, subreddit_boxes, entryText, rowVisible,
          title_count, lastInsert, popover>>

(***************************************************************************)
(* The client's headers and the application's state after construction.    *)
(***************************************************************************)
\* Reddit.__init__: "Basic " + base64(client id), and the User-Agent string.
BasicAuth == [scheme |-> "Basic", cred |-> "client_id"]
UserAgent == "telex:v0.1.0"
InitialHeaders == [Authorization |-> BasicAuth, UserAgent |-> UserAgent]

NoCall ==
    [client |-> "none", method |-> "none", failure |-> "none", status |-> 0,
     kind |-> "none", exc |-> "none", requests |-> 0]
NoSync == [method |-> "none", auth |-> BasicAuth, ua |-> "none"]

\* The profile tabs' widget names in the order render_page builds them (Posts
\* is renamed to "submitted"); the first MaxTabs of them are modelled.
TabNames == <<"overview", "submitted", "comments", "upvoted", "downvoted">>
Tabs == {TabNames[k] : k \in 1..MaxTabs}

\* The application before anything ran, for the generation v of the code.
AppIdle(v) ==
    /\ version = v
    /\ headers = InitialHeaders
    /\ lastCall = NoCall
    /\ tasks = <<>>
    /\ syncCall = NoSync
    /\ dialog = "none"
    /\ loginShown = TRUE
    /\ home = FALSE
    /\ got200 = FALSE
    /\ controller = FALSE
    /\ userData = "none"
    /\ viewProfileBtn = "absent"
    /\ tabsBuilt = FALSE
    /\ tabSensitive = {}
    /\ currentProfileTab = "overview"
    /\ profileBox = FALSE

NoAws == [op |-> "none", arg |-> "none", fault |-> "none", kind |-> "none",
          value |-> "none", exc |-> "none"]

\* No AWSClient method was called and Log Out was not clicked.
SessionIdle ==
    /\ awsResult = NoAws
    /\ baseWindow = "open"
    /\ logoutBtn = "enabled"
    /\ effects = <<>>

\* store.py: the sort names, by SortType value (constants.py:15-22).
post_sort_type == <<"Best", "New", "Hot", "Top", "Rising">>

NoEvent == [handler |-> "none", arg |-> "none", changed |-> {}]

\* The shell before any of its handlers ran: store.py's initial values, an
\* empty header bar, no preferences window.
ShellIdle ==
    /\ settings = [k \in {"dark-mode", "show-nsfw"} |-> FALSE]
    /\ prefsWindow = "closed"
    /\ darkSwitch = FALSE
    /\ nsfwSwitch = FALSE
    /\ colorScheme = "DEFAULT"
    /\ current_sort = 0
    /\ current_window = "auth"
    /\ back_btn_set = FALSE
    /\ headerBar = <<>>
    /\ back_btn = "None"
    /\ home_btn = "None"
    /\ sortLabel = "none"
    /\ radios = {}
    /\ pendingToggles = <<>>
    /\ scheduled = <<>>
    /\ lastEvent = NoEvent

NoInsert == [len |-> 0, stopped |-> FALSE]

\* No text was inserted into the title field.
TitleIdle ==
    /\ title_count = 0
    /\ lastInsert = NoInsert

NoTime == [text |-> "none", n |-> 0, unit |-> "none", s |-> ""]

\* get_submission_time was not called; no search entry is on screen.
ToolsIdle ==
    /\ clock = 0
    /\ utc_timestamp = 0
    /\ submission_time = NoTime
    /\ searchWindow = "none"
    /\ subreddit_boxes = <<>>
    /\ entryText = <<>>
    /\ rowVisible = <<>>
    /\ TitleIdle
    /\ popover = <<>>

ExtIdle == SessionIdle /\ ShellIdle /\ ToolsIdle

\* No post detail page is being rendered.
CommentsIdle ==
    /\ comments = <<>>
    /\ pc = "idle"
    /\ todo = <<>>
    /\ rendered = <<>>
    /\ visited = {}
    /\ raisedAt = 0

(***************************************************************************)
(* The JSON of a comment node, as far as __load_comments reads it.         *)
(*   kind    : the "kind" key          ("missing": no such key)            *)
(*   hasData : whether the "data" key is present                           *)
(*   author  : data["author"]          ("missing": no key, "null": None)   *)
(*   hasBody : whether data has a "body" key                               *)
(*   replies : data["replies"]                                             *)
(*       "missing"     no such key                                         *)
(*       "empty_str"   ""   (what the API sends for a comment w/o replies) *)
(*       "empty_dict"  {}                                                  *)
(*       "no_data"     a non-empty dict without a "data" key               *)
(*       "no_children" {"data": {...}} without a "children" key            *)
(*       "data_null"   {"data": None}                                      *)
(*       "listing"     {"data": {"children": [...]}}                       *)
(*   parent  : the node whose replies listing holds this node (0: the      *)
(*             top-level listing)                                          *)
(***************************************************************************)
WellFormed ==
    [kind |-> "t1", hasData |-> TRUE, author |-> "user", hasBody |-> TRUE,
     replies |-> "listing"]

EmptyReplies == {"missing", "empty_str", "empty_dict", "no_data", "no_children"}

\* The well-formed node and every single defect of it the walk can meet.
NodeShapes ==
    {WellFormed,
     [WellFormed EXCEPT !.kind = "missing"],
     [WellFormed EXCEPT !.kind = "more"],
     [kind |-> "t1", hasData |-> FALSE, author |-> "missing", hasBody |-> FALSE,
      replies |-> "missing"],
     [WellFormed EXCEPT !.author = "missing"],
     [WellFormed EXCEPT !.author = "null"],
     [WellFormed EXCEPT !.hasBody = FALSE]}
    \cup {[WellFormed EXCEPT !.replies = r] : r \in EmptyReplies \cup {"data_null"}}

RECURSIVE AncestorsOrSelf(_, _)
\* i and the nodes above it, by the parent vector p.
AncestorsOrSelf(p, i) ==
    IF i = 0 THEN {} ELSE {i} \cup AncestorsOrSelf(p, p[i])

\* Node ids number the forest in document order: a node directly follows its
\* previous sibling's subtree, so its parent is 0 or on the path to node i-1.
ParentVectors(n) ==
    {p \in [1..n -> 0..n] :
        \A i \in 1..n : p[i] < i /\ (p[i] = 0 \/ p[i] \in AncestorsOrSelf(p, i - 1))}

\* Only a node whose data holds a replies listing can have children.
Holds(p, s) ==
    \A i \in DOMAIN p :
        p[i] # 0 => (s[p[i]].hasData /\ s[p[i]].replies = "listing")

\* ---- tree helpers over the state ----
Nodes == DOMAIN comments

\* ChildrenOf with the children list walked from its last element.
ChildrenOf_Reversed(c) ==
    LET ids == {i \in Nodes : comments[i].parent = c}
        RECURSIVE Desc(_)
        Desc(S) == IF S = {} THEN <<>>
                   ELSE LET m == CHOOSE x \in S : \A y \in S : x >= y
                        IN <<m>> \o Desc(S \ {m})
    IN Desc(ids)

\* The children list of a listing, in the API's order.
ChildrenOf(c) ==
    LET ids == {i \in Nodes : comments[i].parent = c}
        RECURSIVE Asc(_)
        Asc(S) == IF S = {} THEN <<>>
                  ELSE LET m == CHOOSE x \in S : \A y \in S : x <= y
                       IN <<m>> \o Asc(S \ {m})
    IN Asc(ids)

RECURSIVE Depth(_)
\* Depth in the reply tree: 0 for a top-level comment.
Depth(i) == IF comments[i].parent = 0 THEN 0 ELSE 1 + Depth(comments[i].parent)

RECURSIVE Descendants(_)
Descendants(i) ==
    LET kids == {k \in Nodes : comments[k].parent = i}
    IN kids \cup UNION {Descendants(k) : k \in kids}

(***************************************************************************)
(* __load_comments, one call (post_detail.py:107-233).                     *)
(***************************************************************************)
\* line 121: "kind" not in comment_data or comment_data["kind"] != "t1"
NotAComment(node) == node.kind = "missing" \/ node.kind # "t1"

\* Deleted with the `is None` test of line 126 left out.
Deleted_NullNotChecked(node) == ~node.hasData \/ node.author = "missing"

\* lines 124-126: data = comment_data.get("data", {});
\* "author" not in data or data.get("author") is None
Deleted(node) == ~node.hasData \/ node.author = "missing" \/ node.author = "null"

\* line 130: body = data["body"] raises KeyError when the key is absent
BodyRaises(node) == ~node.hasBody

\* line 139: margin_start = nesting_level * 30
MarginStart(level) == level * IndentUnit

\* ReplyLevel with the increment of line 233 left out.
ReplyLevel_Same(level) == level

\* line 233: the level passed to the recursive call
ReplyLevel(level) == level + 1

\* line 229: replies_data = data.get("replies", {}); its truth value
RepliesTruthy(node) == node.replies \notin {"missing", "empty_str", "empty_dict"}

\* line 230: "data" in replies_data
RepliesHasData(node) == node.replies # "no_data"

\* RepliesOutcome without the `"data" in replies_data` test of line 230:
\* replies_data["data"] raises KeyError on a dict that has no such key.
RepliesOutcome_NoKeyTest(node) ==
    IF RepliesTruthy(node)
    THEN IF node.replies \in {"data_null", "no_data"} THEN "raise" ELSE "descend"
    ELSE "stop"

\* lines 229-233, what the tail of a call does with data["replies"]:
\* "stop" (no loop iteration), "descend", or "raise" (None has no .get)
RepliesOutcome(node) ==
    IF RepliesTruthy(node) /\ RepliesHasData(node)
    THEN IF node.replies = "data_null" THEN "raise" ELSE "descend"
    ELSE "stop"

\* line 231: replies_data["data"].get("children", [])
RepliesChildren(i) ==
    IF comments[i].replies = "no_children" THEN <<>> ELSE ChildrenOf(i)

\* What one call does before it reaches the replies: "skip", "raise" or "render".
LoadCommentsOutcome(node) ==
    IF NotAComment(node) THEN "skip"
    ELSE IF Deleted(node) THEN "skip"
    ELSE IF BodyRaises(node) THEN "raise"
    ELSE "render"

\* The recursive calls one call makes, as <<node, level>> pairs (lines 232-233).
Recursion(i, level) ==
    [k \in DOMAIN RepliesChildren(i) |->
        [node |-> RepliesChildren(i)[k], level |-> ReplyLevel(level)]]

(***************************************************************************)
(* Actions of the comment renderer.                                        *)
(***************************************************************************)
InitComments ==
    /\ \E n \in 0..MaxNodes :
         \E p \in ParentVectors(n) :
           \E s \in [1..n -> NodeShapes] :
             /\ Holds(p, s)
             /\ comments = [i \in 1..n |->
                   [parent |-> p[i], kind |-> s[i].kind, hasData |-> s[i].hasData,
                    author |-> s[i].author, hasBody |-> s[i].hasBody,
                    replies |-> s[i].replies]]
    /\ pc = "idle"
    /\ todo = <<>>
    /\ rendered = <<>>
    /\ visited = {}
    /\ raisedAt = 0
    /\ AppIdle("later")
    /\ ExtIdle
    /\ secret = "none"

\* render_page, lines 297-300: for comment in comments_data: load(comment, 0)
RenderPage ==
    /\ pc = "idle"
    /\ pc' = "loading"
    /\ todo' = [k \in DOMAIN ChildrenOf(0) |-> [node |-> ChildrenOf(0)[k], level |-> 0]]
    /\ UNCHANGED <<comments, rendered, visited, raisedAt>>
    /\ UNCHANGED <<appVars, extVars>>

\* One call of __load_comments on the next node of the innermost loop.
LoadComments ==
    /\ pc = "loading"
    /\ todo # <<>>
    /\ LET call == Head(todo)
           i == call.node
           outcome == LoadCommentsOutcome(comments[i])
       IN /\ visited' = visited \cup {i}
          /\ CASE outcome = "skip" ->
                    /\ todo' = Tail(todo)
                    /\ UNCHANGED <<pc, rendered, raisedAt>>
               [] outcome = "raise" ->
                    \* KeyError leaves __load_comments and render_page
                    /\ pc' = "raised"
                    /\ raisedAt' = i
                    /\ todo' = <<>>
                    /\ UNCHANGED rendered
               [] outcome = "render" ->
                    \* line 220 appends the box, lines 228-233 follow
                    /\ rendered' = Append(rendered,
                          [node |-> i, margin_start |-> MarginStart(call.level)])
                    /\ CASE RepliesOutcome(comments[i]) = "stop" ->
                              /\ todo' = Tail(todo)
                              /\ UNCHANGED <<pc, raisedAt>>
                         [] RepliesOutcome(comments[i]) = "descend" ->
                              /\ todo' = Recursion(i, call.level) \o Tail(todo)
                              /\ UNCHANGED <<pc, raisedAt>>
                         [] RepliesOutcome(comments[i]) = "raise" ->
                              /\ pc' = "raised"
                              /\ raisedAt' = i
                              /\ todo' = <<>>
    /\ UNCHANGED comments
    /\ UNCHANGED <<appVars, extVars>>

\* render_page returns after the last comment.
RenderPageReturn ==
    /\ pc = "loading"
    /\ todo = <<>>
    /\ pc' = "done"
    /\ UNCHANGED <<comments, todo, rendered, visited, raisedAt>>
    /\ UNCHANGED <<appVars, extVars>>

NextComments == RenderPage \/ LoadComments \/ RenderPageReturn

SpecComments == InitComments /\ [][NextComments]_vars

\* The walk is a plain sequential computation: it keeps running until it
\* returns or raises.
FairSpecComments == SpecComments /\ WF_vars(NextComments)

(***************************************************************************)
(* Properties of the comment renderer.                                     *)
(***************************************************************************)
RenderedNodes == {rendered[k].node : k \in DOMAIN rendered}
TodoNodes == {todo[k].node : k \in DOMAIN todo}
FollowingSiblings(i) ==
    {j \in Nodes : comments[j].parent = comments[i].parent /\ j > i}

\* A node of kind t1 whose data has no author key or a null author.
DeletedT1(i) == comments[i].kind = "t1" /\ comments[i].author \in {"missing", "null"}

C1_State ==
    \A i \in visited :
        DeletedT1(i) =>
            /\ i \notin RenderedNodes
            /\ raisedAt # i
            /\ Descendants(i) \cap (visited \cup RenderedNodes \cup TodoNodes) = {}
            /\ pc = "done" => FollowingSiblings(i) \subseteq visited

C1_Step ==
    (pc = "loading" /\ todo # <<>> /\ DeletedT1(Head(todo).node)) =>
        /\ pc' = "loading"
        /\ rendered' = rendered
        /\ todo' = Tail(todo)

\* C1: a t1 node without an author (no key, or null) gets no widget and is not
\* descended into, so nothing of its subtree is rendered; the call just
\* returns, and the loop goes on with the siblings that follow it.
C1_DeletedSubtreeSkipped == [](C1_State) /\ [][C1_Step]_vars

\* A deleted comment with replies was skipped, and a later sibling rendered.
C1_Witness ==
    /\ pc = "done"
    /\ \E i \in visited :
        /\ DeletedT1(i)
        /\ Descendants(i) # {}
        /\ FollowingSiblings(i) \cap RenderedNodes # {}

\* C2: the margin of every rendered comment is 30 x its depth in the reply
\* tree (0 at the top level, one more per reply level).
C2_IndentIsDepth ==
    \A k \in DOMAIN rendered :
        rendered[k].margin_start = IndentUnit * Depth(rendered[k].node)

\* A reply to a reply was rendered, two levels deep.
C2_Witness ==
    \E k \in DOMAIN rendered :
        Depth(rendered[k].node) = 2 /\ rendered[k].margin_start = 2 * IndentUnit

\* The malformed nodes the claim C3 lists.
Malformed(i) ==
    \/ comments[i].kind # "t1"
    \/ ~comments[i].hasData
    \/ comments[i].author = "missing"
    \/ (comments[i].author = "user" /\ ~comments[i].hasBody)

\* C3 (as claimed): no malformed node makes the rendering raise; it is
\* skipped, and the walk goes on to the end of the listing.
C3_MalformedNeverRaises ==
    \A i \in visited : Malformed(i) => (raisedAt # i /\ pc # "raised")

\* The replies field of a rendered node is one of the empty forms.
EmptyRepliesField(i) ==
    \/ comments[i].replies \in EmptyReplies
    \/ (comments[i].replies = "listing" /\ ChildrenOf(i) = <<>>)

C4_State ==
    \A i \in RenderedNodes : EmptyRepliesField(i) => raisedAt # i

C4_Step ==
    (/\ pc = "loading" /\ todo # <<>>
     /\ LoadCommentsOutcome(comments[Head(todo).node]) = "render"
     /\ EmptyRepliesField(Head(todo).node)) =>
        /\ pc' = "loading"
        /\ todo' = Tail(todo)

\* C4: the walk ends (render_page returns or an exception leaves it) on every
\* tree, and at a rendered node with an empty replies field the call returns
\* without an error and without a recursive call.
C4_Terminates ==
    /\ <>(pc \in {"done", "raised"})
    /\ [](C4_State)
    /\ [][C4_Step]_vars

\* The walk returned after rendering a reply and a node with an empty
\* (non-listing) replies field.
C4_Witness ==
    /\ pc = "done"
    /\ \E i \in RenderedNodes : comments[i].replies \in EmptyReplies
    /\ \E i \in RenderedNodes : Depth(i) >= 1

(***************************************************************************)
(* Part 2 - the Reddit clients: what a method call returns or raises.      *)
(***************************************************************************)
Tokens == {"tokA", "tokB"}
Statuses == {HTTP_OK, 401}
Failures == {"connect", "timeout"}

\* What the network does with one request: a response with a status, or a
\* transport failure (no response).
Responses == [failure : {"none"}, status : Statuses]
Outcomes == Responses \cup [failure : Failures, status : {0}]

EarlyMethods == {"generate_access_token", "retrieve_listings"}
LaterMethods ==
    {"generate_access_token", "retrieve_listings", "retrieve_user_details",
     "retrieve_comments", "retrieve_profile_details", "retrieve_subreddits",
     "submit_post"}

\* InjectToken that builds a new header dict holding the Authorization only.
InjectToken_NewDict(h, token) ==
    [Authorization |-> [scheme |-> "Bearer", cred |-> token], UserAgent |-> "none"]

\* inject_token: self.headers["Authorization"] = f"Bearer {token}"
InjectToken(h, token) ==
    [h EXCEPT !.Authorization = [scheme |-> "Bearer", cred |-> token]]

\* The exception the HTTP library raises for a transport failure.
LibRaises(lib, failure) ==
    IF lib = "httpx"
    THEN (IF failure = "connect" THEN "httpx.ConnectError" ELSE "httpx.ReadTimeout")
    ELSE (IF failure = "connect" THEN "requests.ConnectionError" ELSE "requests.Timeout")

\* isinstance(exc, cls) in the two libraries' exception hierarchies.
IsInstance(exc, cls) ==
    \/ exc = cls
    \/ cls = "httpx.RequestError" /\ exc \in {"httpx.ConnectError", "httpx.ReadTimeout"}
    \/ cls = "requests.RequestException"
         /\ exc \in {"requests.ConnectionError", "requests.Timeout"}

\* Each method's try/except: the library that sends the request, the class
\* its except clause names, what the handler does, and whether the call
\* blocks the calling thread (a plain def using requests) or is awaited.
MethodCode(client, m) ==
    IF client = "early"
    THEN [lib |-> "requests", catches |-> "requests.RequestException",
          handler |-> "return_none", raises |-> "none", blocking |-> TRUE]
    ELSE CASE m \in {"generate_access_token", "retrieve_listings",
                     "retrieve_profile_details", "retrieve_subreddits"} ->
                [lib |-> "httpx", catches |-> "httpx.RequestError",
                 handler |-> "raise", raises |-> "httpx.RequestError",
                 blocking |-> FALSE]
           [] m \in {"retrieve_user_details", "retrieve_comments"} ->
                [lib |-> "httpx", catches |-> "requests.RequestException",
                 handler |-> "raise", raises |-> "requests.RequestException",
                 blocking |-> FALSE]
           [] m = "submit_post" ->
                [lib |-> "requests", catches |-> "requests.RequestException",
                 handler |-> "raise", raises |-> "requests.RequestException",
                 blocking |-> TRUE]

\* ClientCall with an except clause that turns the failure into a result dict.
ClientCall_FailureAsResult(client, m, out) ==
    [kind |-> "result", status |-> out.status, exc |-> "none"]

\* One call of a client method whose request meets `out`:
\*   kind "result": returns {"status_code": status, "json": ...}
\*   kind "none":   returns None
\*   kind "raise":  raises exc
ClientCall(client, m, out) ==
    LET code == MethodCode(client, m)
        exc == LibRaises(code.lib, out.failure)
    IN IF out.failure = "none"
       THEN [kind |-> "result", status |-> out.status, exc |-> "none"]
       ELSE IF IsInstance(exc, code.catches)
            THEN IF code.handler = "return_none"
                 THEN [kind |-> "none", status |-> 0, exc |-> "none"]
                 ELSE [kind |-> "raise", status |-> 0, exc |-> code.raises]
            ELSE [kind |-> "raise", status |-> 0, exc |-> exc]

\* The HTTP requests one method call sends: every method body holds a single
\* client.get / client.post / requests.get / requests.post, outside any loop.
Attempts(client, m, out) == 1

CallRecord(client, m, out) ==
    [client |-> client, method |-> m, failure |-> out.failure,
     status |-> ClientCall(client, m, out).status,
     kind |-> ClientCall(client, m, out).kind,
     exc |-> ClientCall(client, m, out).exc,
     requests |-> Attempts(client, m, out)]

(***************************************************************************)
(* AWSClient.create_secret, as far as __handle_auth_code depends on it.    *)
(*   fault "none":          the service answers                            *)
(*   fault "service_error": create_secret raises a ClientError other than  *)
(*                          ResourceExistsException                        *)
(*   fault "update_error":  update_secret raises                           *)
(***************************************************************************)
AwsFaults == {"none", "service_error", "update_error"}

CreateSecret(cur, s, fault) ==
    IF fault = "service_error"
    THEN [secret |-> cur, outcome |-> "swallowed"]
    ELSE IF cur = "none"
         THEN [secret |-> s, outcome |-> "created"]
         ELSE IF fault = "update_error"
              THEN [secret |-> cur, outcome |-> "raise"]
              ELSE [secret |-> s, outcome |-> "updated"]

(***************************************************************************)
(* The coroutines on application.loop.                                     *)
(*   kind   "auth"      AuthWindow.__handle_auth_code                      *)
(*          "user_data" TitlebarController.retrieve_user_data              *)
(*          "profile"   ProfileWindow.render_page                          *)
(*          "tab"       ProfileWindow.render_tab_content                   *)
(*          "render"    another view's render_page (home, post detail,     *)
(*                      new post dialog)                                   *)
(*   step   0: scheduled by create_task, not yet run                       *)
(*          k: suspended in its k-th await of a client call                *)
(*   method, auth, ua: the request in flight and the headers it was sent   *)
(*          with                                                           *)
(*   failures: requests of this coroutine that failed                      *)
(***************************************************************************)
Task(kind, method, arg) ==
    [kind |-> kind, method |-> method, arg |-> arg, step |-> 0,
     auth |-> BasicAuth, ua |-> "none", failures |-> 0]

\* The coroutine reaches `await self.api.<m>(...)`: the request goes out with
\* the client's headers as they are now.
Send(t, m) ==
    [t EXCEPT !.method = m, !.auth = headers.Authorization,
              !.ua = headers.UserAgent, !.step = @ + 1]

RemoveAt(seq, i) == SubSeq(seq, 1, i - 1) \o SubSeq(seq, i + 1, Len(seq))
ReplaceAt(seq, i, repl) == SubSeq(seq, 1, i - 1) \o repl \o SubSeq(seq, i + 1, Len(seq))

\* AfterFailure with a caller that starts over when its request raised.
AfterFailure_Retry(t) == <<[t EXCEPT !.step = 0, !.failures = @ + 1]>>

\* What is left of a coroutine whose awaited client call raised: no caller
\* catches and goes on (ProfileWindow.fetch_data re-raises), so it ends.
AfterFailure(t) == <<>>

\* A blocking call is in progress on the loop's thread: nothing is dispatched.
LoopBlocked == syncCall # NoSync

Awaiting(i) == i \in DOMAIN tasks /\ tasks[i].step >= 1

\* StatusOk with the status test left out.
StatusOk_AnyStatus(status) == TRUE

\* auth.py:122  res["status_code"] == HTTPStatus.OK
StatusOk(status) == status = HTTP_OK

(***************************************************************************)
(* The early generation: the synchronous client of utils/services.py.      *)
(***************************************************************************)
\* utils/services.py:30-32
EarlyInjectToken(token) ==
    /\ version = "early"
    /\ headers' = InjectToken(headers, token)
    /\ UNCHANGED <<version, lastCall, tasks, syncCall, secret, dialog, loginShown,
                   home, got200, controller, userData, viewProfileBtn, tabsBuilt,
                   tabSensitive, currentProfileTab, profileBox>>
    /\ UNCHANGED <<commentVars, extVars>>

\* utils/services.py:34-58, a whole call (the calling thread waits for it)
EarlyCall(m, out) ==
    /\ version = "early"
    /\ lastCall' = CallRecord("early", m, out)
    /\ UNCHANGED <<version, headers, tasks, syncCall, secret, dialog, loginShown,
                   home, got200, controller, userData, viewProfileBtn, tabsBuilt,
                   tabSensitive, currentProfileTab, profileBox>>
    /\ UNCHANGED <<commentVars, extVars>>

(***************************************************************************)
(* The later generation: signal handlers (each runs to its end on the      *)
(* loop) and coroutine segments (from one await to the next).              *)
(***************************************************************************)
CanDispatch == version = "later" /\ ~LoopBlocked
HasSlot == Len(tasks) < MaxTasks

\* auth.py:172-202  AuthWindow.__on_render_page
OnRenderPage ==
    /\ CanDispatch
    /\ loginShown
    /\ dialog # "open"
    /\ dialog' = "open"
    /\ UNCHANGED <<version, headers, lastCall, tasks, syncCall, secret, loginShown,
                   home, got200, controller, userData, viewProfileBtn, tabsBuilt,
                   tabSensitive, currentProfileTab, profileBox>>
    /\ UNCHANGED <<commentVars, extVars>>

\* auth.py:140-159  AuthWindow.__on_load_changed with "code=" in the uri
OnLoadChanged ==
    /\ CanDispatch
    /\ dialog = "open"
    /\ HasSlot
    /\ tasks' = Append(tasks, Task("auth", "generate_access_token", "code"))
    /\ UNCHANGED <<version, headers, lastCall, syncCall, secret, dialog, loginShown,
                   home, got200, controller, userData, viewProfileBtn, tabsBuilt,
                   tabSensitive, currentProfileTab, profileBox>>
    /\ UNCHANGED <<commentVars, extVars>>

\* titlebar_controller.py:48-82  TitlebarController.__init__
TitlebarControllerInit ==
    /\ CanDispatch
    /\ home
    /\ ~controller
    /\ HasSlot
    /\ controller' = TRUE
    /\ tasks' = Append(tasks, Task("user_data", "retrieve_user_details", "-"))
    /\ UNCHANGED <<version, headers, lastCall, syncCall, secret, dialog, loginShown,
                   home, got200, userData, viewProfileBtn, tabsBuilt,
                   tabSensitive, currentProfileTab, profileBox>>
    /\ UNCHANGED <<commentVars, extVars>>

\* titlebar_controller.py:94-147  setup_titlebar (the profile popover reads
\* self.user_data["json"], so it needs the user data)
SetupTitlebar ==
    /\ CanDispatch
    /\ controller
    /\ userData = "ok"
    /\ viewProfileBtn = "absent"
    /\ viewProfileBtn' = "enabled"
    /\ UNCHANGED <<version, headers, lastCall, tasks, syncCall, secret, dialog,
                   loginShown, home, got200, controller, userData, tabsBuilt,
                   tabSensitive, currentProfileTab, profileBox>>
    /\ UNCHANGED <<commentVars, extVars>>

\* titlebar_controller.py:443-462  __on_view_profile_clicked
OnViewProfileClicked ==
    /\ CanDispatch
    /\ viewProfileBtn = "enabled"
    /\ HasSlot
    /\ viewProfileBtn' = "disabled"
    /\ tasks' = Append(tasks, Task("profile", "retrieve_profile_details", "about"))
    /\ UNCHANGED <<version, headers, lastCall, syncCall, secret, dialog, loginShown,
                   home, got200, controller, userData, tabsBuilt,
                   tabSensitive, currentProfileTab, profileBox>>
    /\ UNCHANGED <<commentVars, extVars>>

\* profile.py:439-480  ProfileWindow.__on_tab_clicked: the other tabs are made
\* insensitive first; line 475 reads self.box, which render_page creates only
\* when the current tab is "overview" (AttributeError otherwise).
OnTabClicked(tab) ==
    /\ CanDispatch
    /\ tabsBuilt
    /\ tab \in tabSensitive
    /\ HasSlot
    /\ tabSensitive' = tabSensitive \cap {tab}
    /\ tasks' = IF profileBox
                THEN Append(tasks, Task("tab", "retrieve_profile_details", tab))
                ELSE tasks
    /\ UNCHANGED <<version, headers, lastCall, syncCall, secret, dialog, loginShown,
                   home, got200, controller, userData, viewProfileBtn, tabsBuilt,
                   currentProfileTab, profileBox>>
    /\ UNCHANGED <<commentVars, extVars>>

\* titlebar_controller.py:360-379  __on_reload_clicked; window is the value of
\* store.current_window
OnReloadClicked(window) ==
    /\ CanDispatch
    /\ viewProfileBtn # "absent"
    /\ HasSlot
    /\ tasks' = Append(tasks,
          Task("render",
               IF window = "post_detail" THEN "retrieve_comments"
               ELSE "retrieve_listings", window))
    /\ UNCHANGED <<version, headers, lastCall, syncCall, secret, dialog, loginShown,
                   home, got200, controller, userData, viewProfileBtn, tabsBuilt,
                   tabSensitive, currentProfileTab, profileBox>>
    /\ UNCHANGED <<commentVars, extVars>>

\* new_post.py:485-493  NewPostDialog.render_page is scheduled
OnNewPost ==
    /\ CanDispatch
    /\ home
    /\ HasSlot
    /\ tasks' = Append(tasks, Task("render", "retrieve_subreddits", "new_post"))
    /\ UNCHANGED <<version, headers, lastCall, syncCall, secret, dialog, loginShown,
                   home, got200, controller, userData, viewProfileBtn, tabsBuilt,
                   tabSensitive, currentProfileTab, profileBox>>
    /\ UNCHANGED <<commentVars, extVars>>

\* services.py:181-199  submit_post is entered from a handler: requests.post
\* runs on the loop's thread until the response or the failure is there.
SubmitPost ==
    /\ CanDispatch
    /\ home
    /\ syncCall' = [method |-> "submit_post", auth |-> headers.Authorization,
                    ua |-> headers.UserAgent]
    /\ UNCHANGED <<version, headers, lastCall, tasks, secret, dialog, loginShown,
                   home, got200, controller, userData, viewProfileBtn, tabsBuilt,
                   tabSensitive, currentProfileTab, profileBox>>
    /\ UNCHANGED <<commentVars, extVars>>

\* services.py:195-199  requests.post returns or raises
SubmitPostReturns(out) ==
    /\ version = "later"
    /\ LoopBlocked
    /\ lastCall' = CallRecord("later", "submit_post", out)
    /\ syncCall' = NoSync
    /\ UNCHANGED <<version, headers, tasks, secret, dialog, loginShown,
                   home, got200, controller, userData, viewProfileBtn, tabsBuilt,
                   tabSensitive, currentProfileTab, profileBox>>
    /\ UNCHANGED <<commentVars, extVars>>

\* A scheduled coroutine runs to its first await.  ProfileWindow.render_page
\* first puts a spinner in place of the page (profile.py:540-545).
RunTask(i) ==
    /\ CanDispatch
    /\ i \in DOMAIN tasks
    /\ tasks[i].step = 0
    /\ tasks' = [tasks EXCEPT ![i] = Send(tasks[i], tasks[i].method)]
    /\ tabsBuilt' = IF tasks[i].kind = "profile" THEN FALSE ELSE tabsBuilt
    /\ tabSensitive' = IF tasks[i].kind = "profile" THEN {} ELSE tabSensitive
    /\ UNCHANGED <<version, headers, lastCall, syncCall, secret, dialog, loginShown,
                   home, got200, controller, userData, viewProfileBtn,
                   currentProfileTab, profileBox>>
    /\ UNCHANGED <<commentVars, extVars>>

\* The awaited call raises in the coroutine (services.py, the except clauses).
RequestFails(i, failure) ==
    /\ CanDispatch
    /\ Awaiting(i)
    /\ LET out == [failure |-> failure, status |-> 0]
       IN /\ lastCall' = CallRecord("later", tasks[i].method, out)
          /\ tasks' = IF ClientCall("later", tasks[i].method, out).kind = "raise"
                      THEN ReplaceAt(tasks, i, AfterFailure(tasks[i]))
                      ELSE RemoveAt(tasks, i)
    /\ UNCHANGED <<version, headers, syncCall, secret, dialog, loginShown,
                   home, got200, controller, userData, viewProfileBtn, tabsBuilt,
                   tabSensitive, currentProfileTab, profileBox>>
    /\ UNCHANGED <<commentVars, extVars>>

\* auth.py:121-138  __handle_auth_code resumes with the token response
CompleteAuth(i, status, token, fault) ==
    /\ CanDispatch
    /\ Awaiting(i)
    /\ tasks[i].kind = "auth"
    /\ lastCall' = CallRecord("later", tasks[i].method,
                              [failure |-> "none", status |-> status])
    /\ got200' = (got200 \/ status = HTTP_OK)
    /\ IF StatusOk(status)
       THEN LET cs == CreateSecret(secret, token, fault)
            IN /\ headers' = InjectToken(headers, token)
               /\ secret' = cs.secret
               /\ IF cs.outcome = "raise"
                  THEN /\ tasks' = RemoveAt(tasks, i)
                       /\ UNCHANGED <<dialog, loginShown, home>>
                  ELSE /\ dialog' = "closed"
                       /\ loginShown' = FALSE
                       /\ home' = TRUE
                       /\ tasks' = ReplaceAt(tasks, i,
                             <<Task("render", "retrieve_listings", "home")>>)
       ELSE /\ tasks' = RemoveAt(tasks, i)
            /\ UNCHANGED <<headers, secret, dialog, loginShown, home>>
    /\ UNCHANGED <<version, syncCall, controller, userData, viewProfileBtn,
                   tabsBuilt, tabSensitive, currentProfileTab, profileBox>>
    /\ UNCHANGED <<commentVars, extVars>>

\* titlebar_controller.py:91-92  retrieve_user_data resumes; an error body has
\* no "name" key
CompleteUserData(i, status) ==
    /\ CanDispatch
    /\ Awaiting(i)
    /\ tasks[i].kind = "user_data"
    /\ lastCall' = CallRecord("later", tasks[i].method,
                              [failure |-> "none", status |-> status])
    /\ userData' = IF status = HTTP_OK THEN "ok" ELSE "bad"
    /\ tasks' = RemoveAt(tasks, i)
    /\ UNCHANGED <<version, headers, syncCall, secret, dialog, loginShown,
                   home, got200, controller, viewProfileBtn, tabsBuilt,
                   tabSensitive, currentProfileTab, profileBox>>
    /\ UNCHANGED <<commentVars, extVars>>

\* profile.py:545-547  render_page got the "about" data and awaits the data of
\* the current tab
CompleteProfileAbout(i, status) ==
    /\ CanDispatch
    /\ Awaiting(i)
    /\ tasks[i].kind = "profile"
    /\ tasks[i].step = 1
    /\ lastCall' = CallRecord("later", tasks[i].method,
                              [failure |-> "none", status |-> status])
    /\ tasks' = [tasks EXCEPT ![i] =
                    Send([tasks[i] EXCEPT !.arg = IF status = HTTP_OK
                                                  THEN "about_ok" ELSE "about_bad"],
                         "retrieve_profile_details")]
    /\ UNCHANGED <<version, headers, syncCall, secret, dialog, loginShown,
                   home, got200, controller, userData, viewProfileBtn, tabsBuilt,
                   tabSensitive, currentProfileTab, profileBox>>
    /\ UNCHANGED <<commentVars, extVars>>

\* profile.py:547-671  render_page got the tab's data and builds the page; an
\* error body has no "data" key (lines 585 and 346), and the button is made
\* sensitive on the last line only
CompleteProfile(i, status) ==
    /\ CanDispatch
    /\ Awaiting(i)
    /\ tasks[i].kind = "profile"
    /\ tasks[i].step = 2
    /\ lastCall' = CallRecord("later", tasks[i].method,
                              [failure |-> "none", status |-> status])
    /\ tasks' = RemoveAt(tasks, i)
    /\ IF tasks[i].arg = "about_ok"
          /\ (currentProfileTab = "overview" => status = HTTP_OK)
       THEN /\ tabsBuilt' = TRUE
            /\ tabSensitive' = Tabs
            /\ profileBox' = (currentProfileTab = "overview")
            /\ viewProfileBtn' = "enabled"
       ELSE UNCHANGED <<tabsBuilt, tabSensitive, profileBox, viewProfileBtn>>
    /\ UNCHANGED <<version, headers, syncCall, secret, dialog, loginShown,
                   home, got200, controller, userData, currentProfileTab>>
    /\ UNCHANGED <<commentVars, extVars>>

\* profile.py:492-523  render_tab_content resumes: the content is built from
\* profile_data["json"]["data"] (KeyError on an error body), then the other
\* tabs are made sensitive again
CompleteTab(i, status) ==
    /\ CanDispatch
    /\ Awaiting(i)
    /\ tasks[i].kind = "tab"
    /\ lastCall' = CallRecord("later", tasks[i].method,
                              [failure |-> "none", status |-> status])
    /\ tasks' = RemoveAt(tasks, i)
    /\ IF status = HTTP_OK
       THEN /\ currentProfileTab' = tasks[i].arg
            /\ tabSensitive' = IF tabsBuilt
                               THEN tabSensitive \cup (Tabs \ {tasks[i].arg})
                               ELSE tabSensitive
       ELSE UNCHANGED <<currentProfileTab, tabSensitive>>
    /\ UNCHANGED <<version, headers, syncCall, secret, dialog, loginShown,
                   home, got200, controller, userData, viewProfileBtn, tabsBuilt,
                   profileBox>>
    /\ UNCHANGED <<commentVars, extVars>>

\* Another view's render_page resumes with its response and builds its page.
CompleteRender(i, status) ==
    /\ CanDispatch
    /\ Awaiting(i)
    /\ tasks[i].kind = "render"
    /\ lastCall' = CallRecord("later", tasks[i].method,
                              [failure |-> "none", status |-> status])
    /\ tasks' = RemoveAt(tasks, i)
    /\ UNCHANGED <<version, headers, syncCall, secret, dialog, loginShown,
                   home, got200, controller, userData, viewProfileBtn, tabsBuilt,
                   tabSensitive, currentProfileTab, profileBox>>
    /\ UNCHANGED <<commentVars, extVars>>

InitApp ==
    /\ CommentsIdle
    /\ ExtIdle
    /\ \E v \in {"early", "later"} : AppIdle(v)
    /\ secret \in {"none", "stale"}

NextApp ==
    \/ \E token \in Tokens : EarlyInjectToken(token)
    \/ \E m \in EarlyMethods, out \in Outcomes : EarlyCall(m, out)
    \/ OnRenderPage
    \/ OnLoadChanged
    \/ TitlebarControllerInit
    \/ SetupTitlebar
    \/ OnViewProfileClicked
    \/ \E tab \in Tabs : OnTabClicked(tab)
    \/ \E window \in {"home", "post_detail"} : OnReloadClicked(window)
    \/ OnNewPost
    \/ SubmitPost
    \/ \E out \in Outcomes : SubmitPostReturns(out)
    \/ \E i \in 1..MaxTasks : RunTask(i)
    \/ \E i \in 1..MaxTasks, failure \in Failures : RequestFails(i, failure)
    \/ \E i \in 1..MaxTasks, status \in Statuses, token \in Tokens, fault \in AwsFaults :
          CompleteAuth(i, status, token, fault)
    \/ \E i \in 1..MaxTasks, status \in Statuses : CompleteUserData(i, status)
    \/ \E i \in 1..MaxTasks, status \in Statuses : CompleteProfileAbout(i, status)
    \/ \E i \in 1..MaxTasks, status \in Statuses : CompleteProfile(i, status)
    \/ \E i \in 1..MaxTasks, status \in Statuses : CompleteTab(i, status)
    \/ \E i \in 1..MaxTasks, status \in Statuses : CompleteRender(i, status)

SpecApp == InitApp /\ [][NextApp]_vars

(***************************************************************************)
(* Properties of the clients and of the application.                       *)
(***************************************************************************)
HttpClientExceptions(lib) ==
    IF lib = "httpx"
    THEN {"httpx.RequestError", "httpx.ConnectError", "httpx.ReadTimeout"}
    ELSE {"requests.RequestException", "requests.ConnectionError", "requests.Timeout"}

\* C5: a client call whose request met a transport failure (connection error
\* or timeout) never ends as a normal {status_code, json} result: a method of
\* the early client returns None and raises nothing, a method of the later
\* client raises an exception of the HTTP library it sent the request with.
C5_TransportFailureNeverResult ==
    lastCall.failure # "none" =>
        /\ lastCall.kind # "result"
        /\ lastCall.client = "early" =>
              lastCall.kind = "none" /\ lastCall.exc = "none"
        /\ lastCall.client = "later" =>
              /\ lastCall.kind = "raise"
              /\ lastCall.exc \in
                    HttpClientExceptions(MethodCode("later", lastCall.method).lib)

C5_Witness ==
    /\ lastCall.client = "later"
    /\ lastCall.method = "retrieve_comments"
    /\ lastCall.failure = "timeout"
    /\ lastCall.kind = "raise"

AuthEffects ==
    \/ headers.Authorization.scheme = "Bearer"
    \/ secret \in Tokens
    \/ dialog = "closed"
    \/ ~loginShown
    \/ home
    \/ \E i \in DOMAIN tasks : tasks[i].kind = "render"

C6_State == (version = "later" /\ AuthEffects) => got200

AuthResumes ==
    \E i \in DOMAIN tasks :
        /\ tasks[i].kind = "auth"
        /\ tasks[i].step = 1
        /\ (Len(tasks') < Len(tasks) \/ tasks'[i] # tasks[i])

RenderTasks(seq) == {j \in DOMAIN seq : seq[j].kind = "render"}

C6_Step ==
    (AuthResumes /\ lastCall'.status # HTTP_OK) =>
        /\ UNCHANGED <<headers, secret, dialog, loginShown, home>>
        /\ Cardinality(RenderTasks(tasks')) <= Cardinality(RenderTasks(tasks))

\* C6: the token is injected, the secret written, the OAuth dialog closed, the
\* login view left and the HomeWindow with its render task created only after
\* generate_access_token returned status 200; when __handle_auth_code resumes
\* with any other outcome it changes none of them and the auth view stays.
C6_AuthEffectsOnlyOn200 == [](C6_State) /\ [][C6_Step]_vars

C6_Witness ==
    /\ version = "later"
    /\ lastCall.method = "generate_access_token"
    /\ lastCall.status = 401
    /\ tasks = <<>>
    /\ dialog = "open"
    /\ loginShown
    /\ ~home
    /\ headers = InitialHeaders

RequestsInFlight ==
    {[method |-> tasks[i].method, auth |-> tasks[i].auth, ua |-> tasks[i].ua] :
        i \in {j \in DOMAIN tasks : tasks[j].step >= 1}}
    \cup (IF syncCall = NoSync THEN {} ELSE {syncCall})

\* C7: a request sent with the Basic credentials is the token exchange; every
\* other request of the client carries "Bearer <access token>"; the token is
\* injected before the home window and any coroutine other than the token
\* exchange exist; every request carries the User-Agent of __init__, which
\* inject_token leaves in the headers.
C7_OnlyTokenExchangeIsBasic ==
    /\ \A r \in RequestsInFlight :
          /\ r.auth.scheme = "Basic" => r.method = "generate_access_token"
          /\ r.method # "generate_access_token" =>
                r.auth.scheme = "Bearer" /\ r.auth.cred \in Tokens
          /\ r.ua = UserAgent
    /\ headers.UserAgent = UserAgent
    /\ (home \/ \E i \in DOMAIN tasks : tasks[i].kind # "auth") =>
          headers.Authorization.scheme = "Bearer"

C7_Witness ==
    /\ got200
    /\ \E r \in RequestsInFlight :
          /\ r.method = "retrieve_profile_details"
          /\ r.auth = headers.Authorization
          /\ r.auth.scheme = "Bearer"
          /\ r.ua = UserAgent

C9_RequestsNeverBlockLoop ==
    (version = "later" /\ RequestsInFlight # {}) => ~LoopBlocked

\* C10: when no request is in flight, no control that a request-driven action
\* disabled is still disabled: the View Profile button is sensitive and so is
\* every tab of a built profile page.
C10_ControlsReenabled ==
    (version = "later" /\ RequestsInFlight = {} /\ tasks = <<>>) =>
        /\ viewProfileBtn # "disabled"
        /\ tabsBuilt => tabSensitive = Tabs

(***************************************************************************)
(* Part 3 - AWSClient (services.py:200-297) and the Log Out handler of     *)
(* windows/titlebar_controller.py.                                         *)
(*   fault "none":          Secrets Manager answers                        *)
(*   fault "service_error": it answers with an error other than            *)
(*                          ResourceExistsException (boto3 raises          *)
(*                          ClientError)                                   *)
(*   fault "update_error":  the update_secret request fails                *)
(*   fault "no_string":     the secret value holds no SecretString         *)
(* A secret that is absent makes get, update and delete fail with          *)
(* ResourceNotFoundException, and create fail with ResourceExistsException *)
(* when it is present.                                                     *)
(***************************************************************************)
SecretValues == Tokens \cup {"stale"}

\* services.py:266-273  update_secret; `raise ClientError(msg)` calls the
\* two-argument constructor of botocore's ClientError with one argument.
UpdateSecret(cur, s, fault) ==
    IF cur = "none" \/ fault # "none"
    THEN [secret |-> cur, kind |-> "raise", value |-> "none", exc |-> "TypeError"]
    ELSE [secret |-> s, kind |-> "return", value |-> "aws_response", exc |-> "none"]

\* services.py:221-230  create_secret as its caller sees it: the except
\* clause has no else branch for the other error codes, so the function
\* falls off its end and returns None.
CreateSecretResult(cur, s, fault) ==
    LET cs == CreateSecret(cur, s, fault)
    IN CASE cs.outcome = "swallowed" ->
              [secret |-> cs.secret, kind |-> "return", value |-> "None", exc |-> "none"]
         [] cs.outcome = "created" ->
              [secret |-> cs.secret, kind |-> "return", value |-> "success", exc |-> "none"]
         [] OTHER -> UpdateSecret(cur, s, IF fault = "update_error" THEN fault ELSE "none")

\* services.py:244-252  get_secret
GetSecret(cur, fault) ==
    IF cur = "none" \/ fault = "service_error"
    THEN [kind |-> "raise", value |-> "none", secret_value |-> "none", exc |-> "ClientError"]
    ELSE IF fault = "no_string"
         THEN [kind |-> "return", value |-> "error", secret_value |-> "none", exc |-> "none"]
         ELSE [kind |-> "return", value |-> "success", secret_value |-> cur, exc |-> "none"]

\* services.py:287-297  delete_secret
DeleteSecret(cur, fault) ==
    IF cur = "none" \/ fault # "none"
    THEN [secret |-> cur, kind |-> "raise", value |-> "none", exc |-> "TypeError"]
    ELSE [secret |-> "none", kind |-> "return", value |-> "success", exc |-> "none"]

AwsRecord(op, arg, fault, r) ==
    [op |-> op, arg |-> arg, fault |-> fault, kind |-> r.kind, value |-> r.value,
     exc |-> r.exc]

sessionRest == <<version, lastCall, tasks, syncCall, dialog, got200, controller,
                 userData, viewProfileBtn, tabsBuilt, tabSensitive,
                 currentProfileTab, profileBox, shellVars, toolVars>>

CreateSecretCall(s, fault) ==
    /\ awsResult' = AwsRecord("create_secret", s, fault, CreateSecretResult(secret, s, fault))
    /\ secret' = CreateSecretResult(secret, s, fault).secret
    /\ UNCHANGED <<headers, home, loginShown, baseWindow, logoutBtn, effects>>
    /\ UNCHANGED <<commentVars, sessionRest>>

GetSecretCall(fault) ==
    /\ awsResult' = [AwsRecord("get_secret", "none", fault, GetSecret(secret, fault))
                        EXCEPT !.arg = GetSecret(secret, fault).secret_value]
    /\ UNCHANGED <<secret, headers, home, loginShown, baseWindow, logoutBtn, effects>>
    /\ UNCHANGED <<commentVars, sessionRest>>

UpdateSecretCall(s, fault) ==
    /\ awsResult' = AwsRecord("update_secret", s, fault, UpdateSecret(secret, s, fault))
    /\ secret' = UpdateSecret(secret, s, fault).secret
    /\ UNCHANGED <<headers, home, loginShown, baseWindow, logoutBtn, effects>>
    /\ UNCHANGED <<commentVars, sessionRest>>

DeleteSecretCall(fault) ==
    /\ awsResult' = AwsRecord("delete_secret", "none", fault, DeleteSecret(secret, fault))
    /\ secret' = DeleteSecret(secret, fault).secret
    /\ UNCHANGED <<headers, home, loginShown, baseWindow, logoutBtn, effects>>
    /\ UNCHANGED <<commentVars, sessionRest>>

\* LogoutSteps with the window closed before the secret is deleted.
LogoutSteps_CloseFirst(r) ==
    IF r.kind = "raise"
    THEN <<"window_closed", "auth_presented", "delete_raised">>
    ELSE <<"window_closed", "auth_presented", "secret_deleted">>

\* titlebar_controller.py:439-441  the statements of __on_logout_clicked that
\* run, in order, given what delete_secret did
LogoutSteps(r) ==
    IF r.kind = "raise"
    THEN <<"delete_raised">>
    ELSE <<"secret_deleted", "window_closed", "auth_presented">>

Did(steps, what) == \E k \in DOMAIN steps : steps[k] = what

\* titlebar_controller.py:438-441  __on_logout_clicked; AuthWindow.__init__
\* builds its own client (auth.py:92) and shows the login button.
OnLogoutClicked(fault) ==
    /\ home
    /\ baseWindow = "open"
    /\ logoutBtn = "enabled"
    /\ logoutBtn' = "disabled"
    /\ LET r == DeleteSecret(secret, fault)
       IN /\ awsResult' = AwsRecord("delete_secret", "none", fault, r)
          /\ secret' = r.secret
          /\ effects' = effects \o LogoutSteps(r)
          /\ IF Did(LogoutSteps(r), "window_closed")
             THEN baseWindow' = "closed" /\ home' = FALSE
             ELSE UNCHANGED <<baseWindow, home>>
          /\ IF Did(LogoutSteps(r), "auth_presented")
             THEN loginShown' = TRUE /\ headers' = InitialHeaders
             ELSE UNCHANGED <<loginShown, headers>>
    /\ UNCHANGED <<commentVars, sessionRest>>

\* A session after a login: the token is in the client's headers, and in the
\* store unless create_secret lost it; an older secret may be there instead.
InitSecrets ==
    /\ CommentsIdle
    /\ SessionIdle
    /\ ShellIdle
    /\ ToolsIdle
    /\ \E token \in Tokens :
          /\ headers = InjectToken(InitialHeaders, token)
          /\ secret \in {token, "stale", "none"}
    /\ version = "later"
    /\ lastCall = NoCall
    /\ tasks = <<>>
    /\ syncCall = NoSync
    /\ dialog = "closed"
    /\ loginShown = FALSE
    /\ home = TRUE
    /\ got200 = TRUE
    /\ controller = TRUE
    /\ userData = "ok"
    /\ viewProfileBtn = "enabled"
    /\ tabsBuilt = FALSE
    /\ tabSensitive = {}
    /\ currentProfileTab = "overview"
    /\ profileBox = FALSE

NextSecrets ==
    \/ \E s \in Tokens, fault \in AwsFaults : CreateSecretCall(s, fault)
    \/ \E fault \in {"none", "service_error", "no_string"} : GetSecretCall(fault)
    \/ \E s \in Tokens, fault \in {"none", "update_error"} : UpdateSecretCall(s, fault)
    \/ \E fault \in {"none", "service_error"} : DeleteSecretCall(fault)
    \/ \E fault \in {"none", "service_error"} : OnLogoutClicked(fault)

SpecSecrets == InitSecrets /\ [][NextSecrets]_vars

\* C11: after create_secret(name, s) returned normally, get_secret(name)
\* answers status "success" with secret_value s, whether or not the secret
\* existed before.
C11_CreateThenGet ==
    (awsResult.op = "create_secret" /\ awsResult.kind = "return") =>
        /\ GetSecret(secret, "none").kind = "return"
        /\ GetSecret(secret, "none").value = "success"
        /\ GetSecret(secret, "none").secret_value = awsResult.arg

\* C12: for every service error other than ResourceExistsException,
\* create_secret raises ClientError and returns no value.
C12_CreateRaisesServiceError ==
    (awsResult.op = "create_secret" /\ awsResult.fault = "service_error") =>
        awsResult.kind = "raise" /\ awsResult.exc = "ClientError"

\* C16: a Log Out click deletes the stored secret, then closes the application
\* window, then presents a new AuthWindow whose client holds the Basic
\* credentials; when the deletion raises, the window stays open and no
\* AuthWindow is created.
C16_LogoutOrder ==
    /\ effects \in {<<>>, <<"delete_raised">>,
                    <<"secret_deleted", "window_closed", "auth_presented">>}
    /\ effects = <<"delete_raised">> =>
          /\ baseWindow = "open"
          /\ home
          /\ ~loginShown
          /\ headers.Authorization.scheme = "Bearer"
    /\ baseWindow = "closed" =>
          /\ effects = <<"secret_deleted", "window_closed", "auth_presented">>
          /\ loginShown
          /\ ~home
          /\ headers = InitialHeaders

C16_Witness ==
    /\ effects = <<"secret_deleted", "window_closed", "auth_presented">>
    /\ awsResult.op = "delete_secret"
    /\ awsResult.kind = "return"
    /\ secret = "none"
    /\ baseWindow = "closed"
    /\ headers = InitialHeaders

\* The exception type each method's docstring names under "Raises:".
DocRaises(m) ==
    IF m \in {"retrieve_user_details", "retrieve_comments", "submit_post"}
    THEN "requests.RequestException"
    ELSE "httpx.RequestError"

\* C13: a later-client method whose request failed raises an exception of the
\* type its docstring names.
C13_RaisesDocumentedType ==
    (lastCall.client = "later" /\ lastCall.failure # "none") =>
        /\ lastCall.kind = "raise"
        /\ IsInstance(lastCall.exc, DocRaises(lastCall.method))

(***************************************************************************)
(* Part 4 - the application shell: the preferences window                  *)
(* (windows/preferences.py, app.py), the navigation store (store.py,       *)
(* utils/common.py) and the header bar handlers of                         *)
(* windows/titlebar_controller.py.                                         *)
(***************************************************************************)
SettingsKeys == {"dark-mode", "show-nsfw"}

Changed(old, new) == {k \in SettingsKeys : old[k] # new[k]}

\* app.py:75-78 and preferences.py:86-93
SchemeOf(dark) == IF dark THEN "FORCE_DARK" ELSE "DEFAULT"

\* preferences.py:46-67.  settings.bind(key, dark_switch, "active", DEFAULT)
\* sets the switch from the key and writes the key when the switch changes; an
\* object property has one binding, so the bind of line 65,
\* "show-nsfw" -> dark_switch, takes the place of the one of line 51.  The
\* notify handler is connected between the two (line 54) and runs when the
\* second bind moves the switch.  nsfw_switch is bound to nothing.
BoundKey == "show-nsfw"

PrefsInit(st) ==
    LET afterFirst == st["dark-mode"]
        afterSecond == st[BoundKey]
        notified == afterSecond # afterFirst
    IN [darkSwitch |-> afterSecond,
        nsfwSwitch |-> FALSE,
        settings |-> IF notified THEN [st EXCEPT !["dark-mode"] = afterSecond] ELSE st]

\* preferences.py:69-95  __on_dark_mode_change after the binding of the
\* switch wrote its key
DarkSwitchToggled(st, active) ==
    [[st EXCEPT ![BoundKey] = active] EXCEPT !["dark-mode"] = active]

\* The decimal name of a radio button, str(SortType.X.value), and int(name).
SortValues == 0..4
StrOf(k) == <<"0", "1", "2", "3", "4">>[k + 1]
IntOf(name) == CHOOSE k \in SortValues : StrOf(k) = name

\* SortLabelOf with the label left as it was first built.
SortLabelOf_Initial(sort) == post_sort_type[1]

\* titlebar_controller.py:342-345  the label of the sort menu button
SortLabelOf(sort) == post_sort_type[sort + 1]

\* titlebar_controller.py:271-309  the radio buttons built active
ActiveRadios(sort) == {StrOf(k) : k \in {j \in SortValues : sort = j}}

\* titlebar_controller.py:372-379  the render task __on_reload_clicked creates
ReloadTask(window) ==
    IF window = "post_detail"
    THEN [view |-> "post_detail", setup_titlebar |-> TRUE, set_current_window |-> FALSE]
    ELSE [view |-> "home", setup_titlebar |-> FALSE, set_current_window |-> FALSE]

\* titlebar_controller.py:419-421
HomeTask == [view |-> "home", setup_titlebar |-> FALSE, set_current_window |-> TRUE]

Event(handler, arg) == [handler |-> handler, arg |-> arg, changed |-> {}]

NoToggle == pendingToggles = <<>>

shellRest == <<commentVars, appVars, sessionVars, toolVars>>

\* app.py:160  on_prefs_action builds a PreferencesWindow
OnPrefsAction ==
    /\ NoToggle
    /\ prefsWindow = "closed"
    /\ prefsWindow' = "open"
    /\ darkSwitch' = PrefsInit(settings).darkSwitch
    /\ nsfwSwitch' = PrefsInit(settings).nsfwSwitch
    /\ settings' = PrefsInit(settings).settings
    /\ colorScheme' = IF settings' # settings THEN SchemeOf(darkSwitch') ELSE colorScheme
    /\ lastEvent' = [handler |-> "open_prefs", arg |-> "none",
                     changed |-> Changed(settings, settings')]
    /\ scheduled' = <<>>
    /\ UNCHANGED <<current_sort, current_window, back_btn_set, headerBar, back_btn,
                   home_btn, sortLabel, radios, pendingToggles>>
    /\ UNCHANGED shellRest

\* The user flips the dark-mode switch.
ToggleDarkSwitch ==
    /\ NoToggle
    /\ prefsWindow = "open"
    /\ darkSwitch' = ~darkSwitch
    /\ settings' = DarkSwitchToggled(settings, darkSwitch')
    /\ colorScheme' = SchemeOf(darkSwitch')
    /\ lastEvent' = [handler |-> "toggle_dark", arg |-> "none",
                     changed |-> Changed(settings, settings')]
    /\ scheduled' = <<>>
    /\ UNCHANGED <<prefsWindow, nsfwSwitch>>
    /\ UNCHANGED <<current_sort, current_window, back_btn_set, headerBar, back_btn,
                   home_btn, sortLabel, radios, pendingToggles>>
    /\ UNCHANGED shellRest

\* The user flips the NSFW switch.
ToggleNsfwSwitch ==
    /\ NoToggle
    /\ prefsWindow = "open"
    /\ nsfwSwitch' = ~nsfwSwitch
    /\ lastEvent' = [handler |-> "toggle_nsfw", arg |-> "none", changed |-> {}]
    /\ scheduled' = <<>>
    /\ UNCHANGED <<settings, prefsWindow, darkSwitch, colorScheme>>
    /\ UNCHANGED <<current_sort, current_window, back_btn_set, headerBar, back_btn,
                   home_btn, sortLabel, radios, pendingToggles>>
    /\ UNCHANGED shellRest

\* The preferences window is closed.
ClosePrefs ==
    /\ NoToggle
    /\ prefsWindow = "open"
    /\ prefsWindow' = "closed"
    /\ lastEvent' = Event("close_prefs", "none")
    /\ scheduled' = <<>>
    /\ UNCHANGED <<settings, darkSwitch, nsfwSwitch, colorScheme>>
    /\ UNCHANGED <<current_sort, current_window, back_btn_set, headerBar, back_btn,
                   home_btn, sortLabel, radios, pendingToggles>>
    /\ UNCHANGED shellRest

\* common.py:252-275  set_current_window, called by the view that comes up
SetCurrentWindow(window_name) ==
    /\ NoToggle
    /\ current_window' = window_name
    /\ lastEvent' = Event("set_current_window", window_name)
    /\ scheduled' = <<>>
    /\ UNCHANGED prefsVars
    /\ UNCHANGED <<current_sort, back_btn_set, headerBar, back_btn, home_btn,
                   sortLabel, radios, pendingToggles>>
    /\ UNCHANGED shellRest

\* titlebar_controller.py:157-167  add_back_button; its caller may record the
\* button in store.back_btn_set
AddBackButton(recorded) ==
    /\ NoToggle
    /\ Len(headerBar) < MaxButtons
    /\ back_btn' = "button"
    /\ headerBar' = Append(headerBar, "back")
    /\ back_btn_set' = (back_btn_set \/ recorded)
    /\ lastEvent' = Event("add_back_button", "none")
    /\ scheduled' = <<>>
    /\ UNCHANGED prefsVars
    /\ UNCHANGED <<current_sort, current_window, home_btn, sortLabel, radios,
                   pendingToggles>>
    /\ UNCHANGED shellRest

\* titlebar_controller.py:169-179  add_home_button, the last step of
\* ProfileWindow.render_page (profile.py:668) and of
\* SubredditsWindow.render_page (subreddits.py:222)
AddHomeButton ==
    /\ NoToggle
    /\ Len(headerBar) < MaxButtons
    /\ home_btn' = "button"
    /\ headerBar' = Append(headerBar, "home")
    /\ lastEvent' = Event("add_home_button", "none")
    /\ scheduled' = <<>>
    /\ UNCHANGED prefsVars
    /\ UNCHANGED <<current_sort, current_window, back_btn_set, back_btn, sortLabel,
                   radios, pendingToggles>>
    /\ UNCHANGED shellRest

\* titlebar_controller.py:400-422  __on_home_clicked, for the click on the
\* k-th button of the header bar
OnHomeClicked(k) ==
    /\ NoToggle
    /\ k \in DOMAIN headerBar
    /\ headerBar' = RemoveAt(headerBar, k)
    /\ home_btn' = "None"
    /\ back_btn' = "None"
    /\ back_btn_set' = FALSE
    /\ scheduled' = <<HomeTask>>
    /\ lastEvent' = Event("on_home_clicked", headerBar[k])
    /\ UNCHANGED prefsVars
    /\ UNCHANGED <<current_sort, current_window, sortLabel, radios, pendingToggles>>
    /\ UNCHANGED shellRest

\* titlebar_controller.py:360-379  __on_reload_clicked from the reload button
OnReloadButtonClicked ==
    /\ NoToggle
    /\ scheduled' = <<ReloadTask(current_window)>>
    /\ lastEvent' = Event("on_reload_clicked", current_window)
    /\ UNCHANGED prefsVars
    /\ UNCHANGED <<current_sort, current_window, back_btn_set, headerBar, back_btn,
                   home_btn, sortLabel, radios, pendingToggles>>
    /\ UNCHANGED shellRest

\* The user picks the sort radio button k: the group makes the active button
\* inactive and k active, and emits "toggled" on each, the old one first.
OnSortClicked(k) ==
    /\ NoToggle
    /\ StrOf(k) \notin radios
    /\ radios' = {StrOf(k)}
    /\ pendingToggles' =
          [j \in 1..Cardinality(radios) |->
              [name |-> CHOOSE n \in radios : TRUE, active |-> FALSE]]
          \o <<[name |-> StrOf(k), active |-> TRUE]>>
    /\ lastEvent' = Event("sort_clicked", StrOf(k))
    /\ scheduled' = <<>>
    /\ UNCHANGED prefsVars
    /\ UNCHANGED <<current_sort, current_window, back_btn_set, headerBar, back_btn,
                   home_btn, sortLabel>>
    /\ UNCHANGED shellRest

\* titlebar_controller.py:381-398  __on_check_btn_toggled for the next
\* emission; on the active button it ends in setup_titlebar (94-147)
OnCheckBtnToggled ==
    /\ pendingToggles # <<>>
    /\ LET widget == Head(pendingToggles)
       IN /\ pendingToggles' = Tail(pendingToggles)
          /\ lastEvent' = Event("on_check_btn_toggled", widget)
          /\ IF widget.active
             THEN /\ current_sort' = IntOf(widget.name)
                  /\ scheduled' = <<ReloadTask(current_window)>>
                  /\ sortLabel' = SortLabelOf(current_sort')
                  /\ radios' = ActiveRadios(current_sort')
             ELSE /\ scheduled' = <<>>
                  /\ UNCHANGED <<current_sort, sortLabel, radios>>
    /\ UNCHANGED prefsVars
    /\ UNCHANGED <<current_window, back_btn_set, headerBar, back_btn, home_btn>>
    /\ UNCHANGED shellRest

\* The home window is up: the settings hold what earlier runs left, the
\* colour scheme follows "dark-mode" (app.py:75-78), and setup_titlebar built
\* the header for store.py's initial sort.
InitShell ==
    /\ CommentsIdle
    /\ SessionIdle
    /\ ToolsIdle
    /\ AppIdle("later")
    /\ secret = "none"
    /\ settings \in [SettingsKeys -> BOOLEAN]
    /\ prefsWindow = "closed"
    /\ darkSwitch = FALSE
    /\ nsfwSwitch = FALSE
    /\ colorScheme = SchemeOf(settings["dark-mode"])
    /\ current_sort = 0
    /\ current_window = "auth"
    /\ back_btn_set = FALSE
    /\ headerBar = <<>>
    /\ back_btn = "None"
    /\ home_btn = "None"
    /\ sortLabel = SortLabelOf(0)
    /\ radios = ActiveRadios(0)
    /\ pendingToggles = <<>>
    /\ scheduled = <<>>
    /\ lastEvent = NoEvent

NextShell ==
    \/ OnPrefsAction
    \/ ToggleDarkSwitch
    \/ ToggleNsfwSwitch
    \/ ClosePrefs
    \/ \E window_name \in {"home", "post_detail", "profile", "subreddits"} :
          SetCurrentWindow(window_name)
    \/ \E recorded \in BOOLEAN : AddBackButton(recorded)
    \/ AddHomeButton
    \/ \E k \in 1..MaxButtons : OnHomeClicked(k)
    \/ OnReloadButtonClicked
    \/ \E k \in SortValues : OnSortClicked(k)
    \/ OnCheckBtnToggled

SpecShell == InitShell /\ [][NextShell]_vars

\* C14: "show-nsfw" changes only in the handler of the NSFW switch and
\* "dark-mode" only in the handler of the dark-mode switch; opening the
\* preferences window changes neither.
C14_SettingsIndependent ==
    /\ "show-nsfw" \in lastEvent.changed => lastEvent.handler = "toggle_nsfw"
    /\ "dark-mode" \in lastEvent.changed => lastEvent.handler = "toggle_dark"

ToggledActive ==
    /\ lastEvent.handler = "on_check_btn_toggled"
    /\ lastEvent.arg.active

C17_State ==
    ToggledActive =>
        \E k \in SortValues :
            /\ StrOf(k) = lastEvent.arg.name
            /\ current_sort = k
            /\ Len(scheduled) = 1
            /\ scheduled[1] = ReloadTask(current_window)
            /\ sortLabel = post_sort_type[k + 1]
            /\ radios = {StrOf(k)}
            /\ pendingToggles = <<>>

C17_Step ==
    (pendingToggles # <<>> /\ ~Head(pendingToggles).active) =>
        /\ UNCHANGED <<current_sort, current_window, sortLabel, radios, headerBar,
                       back_btn, home_btn, back_btn_set, prefsVars>>
        /\ scheduled' = <<>>

\* C17: after the "toggled" handler ran for the radio button k that became
\* active, store.current_sort is k, one reload is scheduled, the label shows
\* post_sort_type[k] and k is the only active radio button; the handler run
\* for the button that became inactive changes nothing and schedules nothing.
C17_SortToggle == [](C17_State) /\ [][C17_Step]_vars

C17_Witness ==
    /\ ToggledActive
    /\ lastEvent.arg.name = "3"
    /\ current_sort = 3
    /\ sortLabel = "Top"
    /\ current_window = "post_detail"
    /\ scheduled = <<ReloadTask("post_detail")>>

\* C18: the render task a reload click schedules is the render_page of the
\* view store.current_window names, for home, post_detail, profile and
\* subreddits.
C18_ReloadRendersCurrent ==
    (/\ lastEvent.handler = "on_reload_clicked"
     /\ lastEvent.arg \in {"home", "post_detail", "profile", "subreddits"}) =>
        /\ Len(scheduled) = 1
        /\ scheduled[1].view = lastEvent.arg

\* C19: after __on_home_clicked the header bar holds no back and no home
\* button, store.back_btn_set is False, back_btn and home_btn are None and a
\* home render with set_current_window=True is scheduled.
C19_HomeClickedClearsHeader ==
    lastEvent.handler = "on_home_clicked" =>
        /\ headerBar = <<>>
        /\ ~back_btn_set
        /\ back_btn = "None"
        /\ home_btn = "None"
        /\ scheduled = <<HomeTask>>

(***************************************************************************)
(* Part 5 - get_submission_time (utils/common.py:212-249).                 *)
(* datetime.now() carries a fraction of a second, so times are counted in  *)
(* half seconds: total_seconds() is total / 2 for the integer total below. *)
(***************************************************************************)
Abs(x) == IF x < 0 THEN -x ELSE x

\* Plural with the "s" given to every count.
Plural_Always(n) == "s"

\* s="s" if minutes > 1 else ""
Plural(n) == IF n > 1 THEN "s" ELSE ""

\* _("{n} <unit>{s} ago").format(...)
Ago(n, unit) == [text |-> "ago", n |-> n, unit |-> unit, s |-> Plural(n)]

LessThanAMinute == [text |-> "Less than a minute ago", n |-> 0, unit |-> "none", s |-> ""]

\* common.py:224-249 for current_time = now and the timestamp ts;
\* total_seconds < T is total < 2 * T, and int(total_seconds // T) is
\* total \div (2 * T)
GetSubmissionTime(now, ts) ==
    LET total == Abs(now - 2 * ts)
    IN IF total < 2 * MINUTE THEN LessThanAMinute
       ELSE IF total < 2 * HOUR THEN Ago(total \div (2 * MINUTE), "minute")
       ELSE IF total < 2 * DAY THEN Ago(total \div (2 * HOUR), "hour")
       ELSE IF total < 2 * WEEK THEN Ago(total \div (2 * DAY), "day")
       ELSE Ago(total \div (2 * WEEK), "week")

\* Elapsed times around the multiples of each unit, in seconds.
Elapsed ==
    {e \in {u * k + delta : u \in {MINUTE, HOUR, DAY, WEEK}, k \in 0..MaxCount,
                            delta \in -2..2} : e >= 0}

\* A time of day far enough from the epoch for every elapsed time tried.
EventBase == (MaxCount + 1) * WEEK

timeRest == <<commentVars, appVars, sessionVars, shellVars, searchVars, titleVars,
              popover>>

\* A post's created_utc is formatted (home.py, post_detail.py, profile.py).
GetSubmissionTimeCall(ts) ==
    /\ utc_timestamp' = ts
    /\ submission_time' = GetSubmissionTime(clock, ts)
    /\ UNCHANGED clock
    /\ UNCHANGED timeRest

InitTime ==
    /\ CommentsIdle
    /\ SessionIdle
    /\ ShellIdle
    /\ AppIdle("later")
    /\ secret = "none"
    /\ clock \in {2 * EventBase, 2 * EventBase + 1}
    /\ utc_timestamp = 0
    /\ submission_time = NoTime
    /\ searchWindow = "none"
    /\ subreddit_boxes = <<>>
    /\ entryText = <<>>
    /\ rowVisible = <<>>
    /\ TitleIdle
    /\ popover = <<>>

NextTime ==
    \E e \in Elapsed, sign \in {-1, 1} : GetSubmissionTimeCall(EventBase + sign * e)

SpecTime == InitTime /\ [][NextTime]_vars

\* The unit the claim gives for d whole seconds, as <<name, length>>.
UnitFor(d) ==
    IF d < 3600 THEN <<"minute", 60>>
    ELSE IF d < 86400 THEN <<"hour", 3600>>
    ELSE IF d < 604800 THEN <<"day", 86400>>
    ELSE <<"week", 604800>>

WholeSeconds == Abs(clock - 2 * utc_timestamp) \div 2

\* C15: with d = |now - timestamp| in whole seconds the result is "Less than
\* a minute ago" for d < 60, and otherwise "N unit(s) ago" for the unit of
\* d's range, N = floor(d / unit length) >= 1, plural exactly when N > 1.
C15_RelativeTime ==
    submission_time # NoTime =>
        LET d == WholeSeconds
        IN IF d < 60
           THEN submission_time.text = "Less than a minute ago"
           ELSE /\ submission_time.text = "ago"
                /\ submission_time.unit = UnitFor(d)[1]
                /\ submission_time.n = d \div UnitFor(d)[2]
                /\ submission_time.n >= 1
                /\ (submission_time.s = "s") <=> (submission_time.n > 1)
                /\ submission_time.s \in {"", "s"}

C15_Witness ==
    /\ submission_time # NoTime
    /\ clock = 2 * EventBase + 1
    /\ WholeSeconds = 604800
    /\ submission_time = [text |-> "ago", n |-> 1, unit |-> "week", s |-> ""]

(***************************************************************************)
(* Part 6 - the subreddit search entry of NewPostDialog                    *)
(* (windows/new_post.py:335-388) and SubredditsWindow                      *)
(* (windows/subreddits.py:53-106).                                         *)
(* "inserted-text" runs its handlers after the buffer changed.             *)
(* "deleted-text" changes the buffer in its default handler: a handler     *)
(* connected with connect (new_post.py:205) sees the buffer before the     *)
(* deletion, one connected with connect_after (subreddits.py:154) after it.*)
(***************************************************************************)
Chars == {"a", "b", "A", "r"}

\* str.lower()
LowerChar(c) == IF c = "A" THEN "a" ELSE c
Lower(str) == [k \in DOMAIN str |-> LowerChar(str[k])]

\* x in y, for strings
In(x, y) ==
    \E start \in 0..(Len(y) - Len(x)) : SubSeq(y, start + 1, start + Len(x)) = x

Titles == {<<"A", "b">>, <<"b", "a">>, <<>>}
PrefixedNames == {<<"r", "a">>, <<"r", "b">>}

\* new_post.py:363-368  the value given to row.set_visible
Matches(text, box) ==
    \/ In(Lower(text), Lower(box.subreddit_title))
    \/ In(Lower(text), Lower(box.subreddit_name))

\* new_post.py:355-368, subreddits.py:73-86  __on_inserted_text
OnInsertedText(boxes, text) ==
    [k \in DOMAIN boxes |-> Matches(text, boxes[k])]

\* entry_buffer.get_length() as __on_deleted_text reads it
LengthSeen(window, before, after) ==
    IF window = "new_post" THEN Len(before) ELSE Len(after)

\* new_post.py:383, subreddits.py:101  the length that shows every row
ShowAllLength(window) == IF window = "new_post" THEN 1 ELSE 0

\* new_post.py:383-388, subreddits.py:101-106  __on_deleted_text
OnDeletedText(window, visible, before, after) ==
    IF LengthSeen(window, before, after) = ShowAllLength(window)
    THEN [k \in DOMAIN visible |-> TRUE]
    ELSE visible

InsertAt(str, pos, c) == SubSeq(str, 1, pos) \o <<c>> \o SubSeq(str, pos + 1, Len(str))
DeleteAt(str, pos, n) == SubSeq(str, 1, pos) \o SubSeq(str, pos + n + 1, Len(str))

searchRest == <<commentVars, appVars, sessionVars, shellVars, timeVars, titleVars,
                popover>>

\* The user types the character c at position pos.
InsertText(pos, c) ==
    /\ searchWindow # "none"
    /\ Len(entryText) < MaxText
    /\ pos \in 0..Len(entryText)
    /\ entryText' = InsertAt(entryText, pos, c)
    /\ rowVisible' = OnInsertedText(subreddit_boxes, entryText')
    /\ UNCHANGED <<searchWindow, subreddit_boxes>>
    /\ UNCHANGED searchRest

\* The user deletes n characters from position pos on.
DeleteText(pos, n) ==
    /\ searchWindow # "none"
    /\ pos \in 0..(Len(entryText) - 1)
    /\ n \in 1..(Len(entryText) - pos)
    /\ entryText' = DeleteAt(entryText, pos, n)
    /\ rowVisible' = OnDeletedText(searchWindow, rowVisible, entryText, entryText')
    /\ UNCHANGED <<searchWindow, subreddit_boxes>>
    /\ UNCHANGED searchRest

\* The window was rendered: every row is visible and the entry is empty.
InitSearch ==
    /\ CommentsIdle
    /\ SessionIdle
    /\ ShellIdle
    /\ AppIdle("later")
    /\ secret = "none"
    /\ clock = 0
    /\ utc_timestamp = 0
    /\ submission_time = NoTime
    /\ searchWindow \in {"new_post", "subreddits"}
    /\ subreddit_boxes \in
          [1..MaxRows -> [subreddit_title : Titles, subreddit_name : PrefixedNames]]
    /\ entryText = <<>>
    /\ rowVisible = [k \in 1..MaxRows |-> TRUE]
    /\ TitleIdle
    /\ popover = <<>>

NextSearch ==
    \/ \E pos \in 0..MaxText, c \in Chars : InsertText(pos, c)
    \/ \E pos \in 0..MaxText, n \in 1..MaxText : DeleteText(pos, n)

SpecSearch == InitSearch /\ [][NextSearch]_vars

\* C20: a subreddit row is visible exactly when the lower-cased entry text is
\* a substring of the row's lower-cased title or lower-cased prefixed name.
C20_VisibleIffMatches ==
    \A k \in DOMAIN rowVisible :
        rowVisible[k] <=> Matches(entryText, subreddit_boxes[k])

\* C21: whenever a deletion leaves the search entry empty, every subreddit row
\* is visible afterwards, whatever the number of characters deleted.
C21_EmptyAfterDeletionShowsAll ==
    [][(Len(entryText') < Len(entryText) /\ entryText' = <<>>)
         => \A k \in DOMAIN rowVisible' : rowVisible'[k]]_vars

(***************************************************************************)
(* Part 7 - the title field of NewPostDialog (windows/new_post.py:113-114, *)
(* 316-333).  GtkTextBuffer emits "insert-text" once per insertion, with   *)
(* the whole inserted text; the text is put into the buffer by the         *)
(* signal's default handler, which runs after a handler connected with     *)
(* connect unless that handler stops the emission.                         *)
(***************************************************************************)
MAX_CHAR == 300

\* The lengths of one insertion: a typed character or a pasted text.
InsertLengths == 1..MaxPaste

\* new_post.py:332-333  __on_insert_text stops the emission
OnInsertText(char_count) == char_count >= MAX_CHAR

\* The buffer's character count after an emission of "insert-text".
AfterInsert(char_count, len) ==
    IF OnInsertText(char_count) THEN char_count ELSE char_count + len

titleRest == <<commentVars, appVars, sessionVars, shellVars, timeVars, searchVars,
               popover>>

\* The user types or pastes a text of len characters into the title field.
InsertTitleText(len) ==
    /\ title_count' = AfterInsert(title_count, len)
    /\ lastInsert' = [len |-> len, stopped |-> OnInsertText(title_count)]
    /\ UNCHANGED titleRest

\* The user deletes n characters of the title; no handler is connected.
DeleteTitleText(n) ==
    /\ n <= title_count
    /\ title_count' = title_count - n
    /\ UNCHANGED lastInsert
    /\ UNCHANGED titleRest

\* The dialog was opened: the title buffer is empty.
InitTitle ==
    /\ CommentsIdle
    /\ AppIdle("later")
    /\ secret = "none"
    /\ ExtIdle

NextTitle ==
    \/ \E len \in InsertLengths : InsertTitleText(len)
    \/ \E n \in InsertLengths : DeleteTitleText(n)

SpecTitle == InitTitle /\ [][NextTitle]_vars

\* C22: after any sequence of insertions of typed or pasted text, the title
\* buffer never holds more than MAX_CHAR characters.
C22_TitleAtMostMaxChar == title_count <= MAX_CHAR

(***************************************************************************)
(* The order of the comment boxes in comments_container                    *)
(* (post_detail.py:220, 228-233, 297-300).  Every call appends to the      *)
(* parent_box it was given, and the recursive call passes the same         *)
(* parent_box on, so `rendered` is the child list of that one container.   *)
(* Node ids follow the order of the children lists: of two nodes with one  *)
(* parent, the one with the lower id comes first in the API's list.        *)
(***************************************************************************)
\* The position of a rendered node's box in the container (0: no box).
PositionOf(i) ==
    IF \E k \in DOMAIN rendered : rendered[k].node = i
    THEN CHOOSE k \in DOMAIN rendered : rendered[k].node = i
    ELSE 0

C23_State ==
    /\ \A k, l \in DOMAIN rendered : rendered[k].node = rendered[l].node => k = l
    /\ \A i, j \in RenderedNodes :
          \* a comment comes before every reply below it
          /\ j \in Descendants(i) => PositionOf(i) < PositionOf(j)
          \* siblings keep the order of the children list
          /\ j \in FollowingSiblings(i) =>
                /\ PositionOf(i) < PositionOf(j)
                \* and the replies below a comment come before its next sibling
                /\ \A r \in Descendants(i) \cap RenderedNodes :
                      PositionOf(r) < PositionOf(j)

\* The container only grows, and only at its end.
C23_Step ==
    \/ rendered' = rendered
    \/ /\ Len(rendered') = Len(rendered) + 1
       /\ SubSeq(rendered', 1, Len(rendered)) = rendered

\* C23: the comment tree is rendered in pre-order into one flat container:
\* each rendered comment is appended before all of its rendered replies, the
\* replies of a comment before that comment's next sibling, and siblings in
\* the order of the children list.
C23_PreOrder == [](C23_State) /\ [][C23_Step]_vars

\* A comment, its reply and its next sibling were all rendered.
C23_Witness ==
    /\ pc = "done"
    /\ \E i, r, j \in RenderedNodes :
          /\ comments[r].parent = i
          /\ j \in FollowingSiblings(i)
          /\ PositionOf(i) < PositionOf(r)
          /\ PositionOf(r) < PositionOf(j)

(***************************************************************************)
(* Part 8 - building the sort menu of the header bar:                      *)
(* HomeWindow.customise_titlebar (windows/home.py:263-340, 372-414) and    *)
(* TitlebarController.setup_titlebar                                       *)
(* (windows/titlebar_controller.py:94-147, 261-358).                       *)
(***************************************************************************)
\* store.post_sort_type[sort]; a list index past the end raises IndexError
SortTypeAt(sort) ==
    IF sort \in SortValues THEN post_sort_type[sort + 1] ELSE "IndexError"

\* home.py:327-329, titlebar_controller.py:345-347  the menu button's label
AddMenuButtonChild(sort) == SortTypeAt(sort)

RECURSIVE HomeRadios(_, _, _)
\* home.py:273-298  check_btn .. check_btn4: the first is built from
\* store.current_sort, each later one after `store.current_sort += 1`
HomeRadios(sort, k, built) ==
    IF k = 5
    THEN [sort |-> sort, raised |-> FALSE, buttons |-> built]
    ELSE LET s == IF k = 0 THEN sort ELSE sort + 1
         IN IF SortTypeAt(s) = "IndexError"
            THEN [sort |-> s, raised |-> TRUE, buttons |-> built]
            ELSE HomeRadios(s, k + 1,
                    Append(built, [name |-> "", label |-> SortTypeAt(s),
                                   active |-> (k = 0)]))

\* home.py:263-306  __add_sort_popover_child: the buttons, store.current_sort
\* when it returns or raises, and whether it raised
HomeAddSortPopoverChild(sort) == HomeRadios(sort, 0, <<>>)

\* titlebar_controller.py:261-323  add_sort_popover_child
AddSortPopoverChild(sort) ==
    [sort |-> sort, raised |-> FALSE,
     buttons |-> [k \in 1..Len(post_sort_type) |->
                    [name |-> StrOf(k - 1), label |-> post_sort_type[k],
                     active |-> (sort = k - 1)]]]

\* What the builders of this part leave alone.
menuFrame == <<prefsVars, current_window, back_btn_set, headerBar, back_btn, home_btn,
               pendingToggles>>

menuRest == <<commentVars, appVars, sessionVars, timeVars, searchVars, titleVars>>

\* home.py:372-414  customise_titlebar, called by every render_page (422)
CustomiseTitlebar ==
    LET label == AddMenuButtonChild(current_sort)
        child == HomeAddSortPopoverChild(current_sort)
        raised == label = "IndexError" \/ child.raised
    IN /\ lastEvent' = Event("customise_titlebar",
                              [before |-> current_sort, raised |-> raised])
       /\ current_sort' = IF label = "IndexError" THEN current_sort ELSE child.sort
       /\ IF raised
          THEN UNCHANGED <<sortLabel, popover>>
          ELSE /\ sortLabel' = label
               /\ popover' = child.buttons
       /\ UNCHANGED <<radios, scheduled>>
       /\ UNCHANGED menuFrame
       /\ UNCHANGED menuRest

\* titlebar_controller.py:94-147  setup_titlebar
SetupTitlebarSortMenu ==
    LET label == AddMenuButtonChild(current_sort)
        child == AddSortPopoverChild(current_sort)
        raised == label = "IndexError"
    IN /\ lastEvent' = Event("setup_titlebar",
                              [before |-> current_sort, raised |-> raised])
       /\ current_sort' = child.sort
       /\ IF raised
          THEN UNCHANGED <<sortLabel, popover, radios>>
          ELSE /\ sortLabel' = label
               /\ popover' = child.buttons
               /\ radios' = ActiveRadios(current_sort)
       /\ UNCHANGED scheduled
       /\ UNCHANGED menuFrame
       /\ UNCHANGED menuRest

\* home.py:342-370  __on_box_clicked: a post of the listing was clicked
OnBoxClicked ==
    /\ lastEvent' = Event("on_box_clicked", [before |-> current_sort, raised |-> FALSE])
    /\ current_sort' = 0
    /\ UNCHANGED <<sortLabel, popover, radios, scheduled>>
    /\ UNCHANGED menuFrame
    /\ UNCHANGED menuRest

\* titlebar_controller.py:381-398  __on_check_btn_toggled for the radio button
\* k of the controller's popover that became active
SortToggled(k) ==
    /\ \E b \in DOMAIN popover : popover[b].name = StrOf(k) /\ ~popover[b].active
    /\ lastEvent' = Event("on_check_btn_toggled", [before |-> current_sort, raised |-> FALSE])
    /\ current_sort' = k
    /\ scheduled' = <<ReloadTask(current_window)>>
    /\ sortLabel' = AddMenuButtonChild(k)
    /\ popover' = AddSortPopoverChild(k).buttons
    /\ radios' = ActiveRadios(k)
    /\ UNCHANGED menuFrame
    /\ UNCHANGED menuRest

\* The application started: store.current_sort = 0 (store.py:4), no header yet.
InitSortMenu ==
    /\ CommentsIdle
    /\ AppIdle("later")
    /\ secret = "none"
    /\ ExtIdle

NextSortMenu ==
    \/ CustomiseTitlebar
    \/ SetupTitlebarSortMenu
    \/ OnBoxClicked
    \/ \E k \in SortValues : SortToggled(k)

SpecSortMenu == InitSortMenu /\ [][NextSortMenu]_vars

\* C24: building the header bar's sort menu never changes store.current_sort:
\* after customise_titlebar (home.py) and after setup_titlebar
\* (titlebar_controller.py) it has the value it had before, an index 0..4 of
\* post_sort_type.
C24_BuildKeepsCurrentSort ==
    lastEvent.handler \in {"customise_titlebar", "setup_titlebar"} =>
        /\ current_sort = lastEvent.arg.before
        /\ lastEvent.arg.before \in SortValues => current_sort \in SortValues

====
